---- MODULE Spec2Model ----
(***************************************************************************)
(* Model of the progressive key-analysis session of                        *)
(* src/Frameworks/libkeyfinder/keyfinder_c.cpp (struct kf_session and the  *)
(* kf_session_* entry points), with the libkeyfinder engine               *)
(* (KeyFinder::KeyFinder acting on a KeyFinder::Workspace) as an external  *)
(* collaborator whose calls either return or throw.                        *)
(*                                                                         *)
(* The engine workspace is opaque to the session; it is modelled by the    *)
(* sequence of engine calls that have been applied to it.                  *)
(***************************************************************************)
EXTENDS Integers, Sequences, FiniteSets, TLC

\* ---------------------------------------------------------------- bounds
\* The source fixes CHUNK_FRAMES at 16384 (keyfinder_c.cpp:14).  The code
\* uses the constant only in comparisons (>=), in the product with the
\* channel count and in the subtraction of the drain loop, so the model is
\* checked for small chunk sizes.
CHUNK_FRAMES == 3
\* largest number of API calls made on one session
MaxCalls == 3
\* largest number of engine calls that throw during one session
MaxThrows == 1

\* ------------------------------------------------------------- constants
\* kf_key_t: KF_A_MAJOR = 0 .. KF_A_FLAT_MINOR = 23, KF_SILENCE = 24
KF_SILENCE == 24

\* The counters are unsigned int; every count of the model stays far below
\* 2^32, so their arithmetic is the arithmetic of the naturals.

\* frame rates a session is created with (kf_session_create, frame_rate)
FrameRates == {44100}
\* channel counts a session is created with (kf_session_create, channels):
\* mono and stereo
ChannelCounts == {1, 2}
\* sample counts passed to kf_session_feed: below one chunk, exactly one
\* chunk, several chunks with and without a remainder
FeedSizes == {0, 1, CHUNK_FRAMES - 1, CHUNK_FRAMES, 3 * CHUNK_FRAMES + 1}
\* values KeyFinder::keyOfChromagram may return (a key_t, SILENCE included)
EngineKeys == {0, KF_SILENCE}
\* what an out-of-bounds read of the vector's storage may yield: an
\* indeterminate value, which is none of the caller's samples
Indeterminate == {-1}
\* what the build may do on an out-of-bounds element read
\* (sampleBuffer[i] with i >= size())
ReadUB == {"abort", "garbage"}
\* what the build may do on an erase whose end iterator is past end(): die,
\* or go on with a vector that has lost the elements it had
EraseUB == {"abort", "erase_all"}

VARIABLES
    frameRate,       \* kf_session::frameRate
    channels,        \* kf_session::channels
    sampleBuffer,    \* kf_session::sampleBuffer (std::vector<double>)
    bufferedFrames,  \* kf_session::bufferedFrames
    hasData,         \* kf_session::hasData
    workspace,       \* kf_session::workspace, as the engine calls applied to it
    status,          \* "live", "destroyed", "aborted" (process died), or
                     \* "feeding" (inside kf_session_feed, in SpecLoop only)
    streamPos,       \* number of sample values the caller has handed over
    totalFrames,     \* sum of the sample_count values of the feeds taken
    nCalls,          \* number of API calls made so far
    lastCall         \* the last API call: its arguments, entry state, result

vars == <<frameRate, channels, sampleBuffer, bufferedFrames, hasData,
          workspace, status, streamPos, totalFrames, nCalls, lastCall>>

session == <<frameRate, channels, sampleBuffer, bufferedFrames, hasData>>

\* ------------------------------------------------------------ engine calls
\* KeyFinder::AudioData built by setFrameRate / setChannels /
\* addToSampleCount / setSample
AudioData(rate, ch, samples) ==
    [frameRate |-> rate, channels |-> ch, samples |-> samples]

NoAudio == AudioData(0, 0, <<>>)

\* finder.progressiveChromagram(audio, workspace): returns or throws
ProgressiveCall(audio, ok) ==
    [op |-> "progressiveChromagram", audio |-> audio, ok |-> ok, key |-> KF_SILENCE]
\* finder.finalChromagram(workspace): returns or throws
FinalCall(ok) ==
    [op |-> "finalChromagram", audio |-> NoAudio, ok |-> ok, key |-> KF_SILENCE]
\* finder.keyOfChromagram(workspace): returns a key or throws
KeyCall(ok, key) ==
    [op |-> "keyOfChromagram", audio |-> NoAudio, ok |-> ok, key |-> key]

\* outcomes of keyOfChromagram: a key, or an exception
KeyOutcomes ==
    {[ok |-> TRUE, key |-> k] : k \in EngineKeys} \cup {[ok |-> FALSE, key |-> KF_SILENCE]}

\* number of engine calls on the workspace that threw
Throws(ws) == Cardinality({i \in 1 .. Len(ws) : ~ws[i].ok})

\* ------------------------------------------------------------ the caller
\* The caller's audio is one stream of sample values; the value at stream
\* position p is p itself, so that order and identity of samples are
\* observable.  A feed of n frames hands over the next n * channels values.
CallerSamples(pos, n, ch) == [i \in 1 .. (n * ch) |-> pos + i]

\* ------------------------------------------------------------- vector ops
\* sampleBuffer[i] (0-based i in the source, 1-based here); an index at or
\* past size() reads whatever the storage holds
ReadSample(buf, i, indet) == IF i <= Len(buf) THEN buf[i] ELSE indet

\* the block copied out of the buffer: audio.setSample(i, sampleBuffer[i])
\* for i in 0 .. chunkSamples-1
CopyBlock(buf, chunkSamples, indet) ==
    [i \in 1 .. chunkSamples |-> ReadSample(buf, i, indet)]

\* sampleBuffer.erase(begin(), begin() + chunkSamples), defined when
\* chunkSamples <= size()
EraseFront(buf, chunkSamples) == SubSeq(buf, chunkSamples + 1, Len(buf))

\* ------------------------------------------------------------------- Init
\* kf_session_create(frame_rate, channels)
Init ==
    /\ frameRate \in FrameRates
    /\ channels \in ChannelCounts
    /\ sampleBuffer = <<>>
    /\ bufferedFrames = 0
    /\ hasData = FALSE
    /\ workspace = <<>>
    /\ status = "live"
    /\ streamPos = 0
    /\ totalFrames = 0
    /\ nCalls = 0
    /\ lastCall = [op |-> "create", valid |-> TRUE, samples |-> TRUE, n |-> 0,
                   ret |-> KF_SILENCE, frames0 |-> 0, buffer0 |-> <<>>,
                   calls0 |-> 0, hasData0 |-> FALSE, finalized0 |-> FALSE]

\* ------------------------------------------------------- kf_session_feed
\* variant: the loop test written with > instead of >=
LoopCondStrict(frames) == frames > CHUNK_FRAMES

\* `while (session->bufferedFrames >= kf_session::CHUNK_FRAMES)`
LoopCond(frames) == frames >= CHUNK_FRAMES

\* variant: the chunk length computed without the channel count
ChunkSamplesMono(ch) == CHUNK_FRAMES

\* `unsigned int chunkSamples = kf_session::CHUNK_FRAMES * channels`
ChunkSamples(ch) == CHUNK_FRAMES * ch

\* variant: the counter left as it is after a chunk
AfterDrainNone(frames) == frames

\* variant: the counter reset after a chunk instead of decremented
AfterDrainReset(frames) == 0

\* `session->bufferedFrames -= kf_session::CHUNK_FRAMES`
AfterDrain(frames) == frames - CHUNK_FRAMES

\* variant: hasData set after the try block, whether or not the call threw
AfterSubmitAlways(hd, ok) == TRUE

\* hasData after `try { progressiveChromagram(...); hasData = true; }
\* catch (...) {}`: the assignment is skipped when the call throws
AfterSubmit(hd, ok) == IF ok THEN TRUE ELSE hd

\* number of passes of the drain loop: its condition reads bufferedFrames
\* only, and each pass ends with AfterDrain
RECURSIVE DrainCount(_)
DrainCount(frames) ==
    IF LoopCond(frames)
    THEN 1 + DrainCount(AfterDrain(frames))
    ELSE 0

\* One pass of the drain loop of kf_session_feed (lines 46-69).  s is the
\* session as the loop sees it: buf, frames, hasData, ws (the workspace), it
\* (passes made), ub (an out-of-bounds access happened), aborted (the process
\* died in one).  ok tells whether progressiveChromagram returns (TRUE) or
\* throws (FALSE); u resolves the undefined behaviour of out-of-bounds
\* accesses.
DrainOnce(s, rate, ch, ok, u) ==
    LET chunkSamples == ChunkSamples(ch)
        oob == chunkSamples > Len(s.buf)
    IN  IF oob /\ u.read = "abort"
        THEN [s EXCEPT !.ub = TRUE, !.aborted = TRUE]
        ELSE
        LET audio == AudioData(rate, ch, CopyBlock(s.buf, chunkSamples, u.indet))
            \* try { progressiveChromagram; hasData = true } catch (...) {}
            s1 == [s EXCEPT !.ws = Append(@, ProgressiveCall(audio, ok)),
                            !.hasData = AfterSubmit(@, ok),
                            !.it = @ + 1,
                            !.ub = @ \/ oob]
        IN  IF oob /\ u.erase = "abort"
            THEN [s1 EXCEPT !.aborted = TRUE]
            ELSE [s1 EXCEPT !.buf = IF ~oob THEN EraseFront(@, chunkSamples)
                                    ELSE <<>>,
                            !.frames = AfterDrain(@)]

\* The drain loop of kf_session_feed: passes while LoopCond holds.
\* engine[k] is the outcome of the k-th progressiveChromagram call.
RECURSIVE FeedLoop(_, _, _, _, _)
FeedLoop(s, rate, ch, engine, u) ==
    IF s.aborted \/ ~LoopCond(s.frames)
    THEN s
    ELSE FeedLoop(DrainOnce(s, rate, ch, engine[s.it + 1], u), rate, ch, engine, u)

\* resolutions of undefined behaviour
UBChoices == [read : ReadUB, erase : EraseUB, indet : Indeterminate]
NoUB == [read |-> "abort", erase |-> "abort", indet |-> -1]

\* The body of kf_session_feed after the argument check, run on a session
\* with buffer buf, counter frames, flag hd and workspace ws: append, count,
\* drain.  samples is the caller's array, n is sample_count.
FeedBody(buf, frames, hd, ws, rate, ch, samples, n, engine, u) ==
    LET \* for (i = 0; i < frames; i++) push_back((double) samples[i]);
        \* the conversion of a float to double keeps its value
        appended == buf \o [i \in 1 .. n |-> samples[i]]
        \* bufferedFrames += frames
        counted == frames + n
    IN  FeedLoop([buf |-> appended, frames |-> counted, hasData |-> hd,
                  ws |-> ws, it |-> 0, ub |-> FALSE, aborted |-> FALSE],
                 rate, ch, engine, u)

\* has finalChromagram been applied to the workspace
Finalized == \E i \in 1 .. Len(workspace) : workspace[i].op = "finalChromagram"

Entry(op, valid, samples, n) ==
    [op |-> op, valid |-> valid, samples |-> samples, n |-> n,
     ret |-> KF_SILENCE, frames0 |-> bufferedFrames, buffer0 |-> sampleBuffer,
     calls0 |-> Len(workspace), hasData0 |-> hasData, finalized0 |-> Finalized]

\* variant: the argument check without the test of the samples pointer
FeedRefusesNoSamplesTest(valid, nonNull, n) == ~valid \/ n = 0

\* `if (!session || !samples || sample_count == 0) return;`
FeedRefuses(valid, nonNull, n) == ~valid \/ ~nonNull \/ n = 0

\* kf_session_feed(session, samples, sample_count); valid: session != NULL,
\* nonNull: samples != NULL, n: sample_count
kf_session_feed(valid, nonNull, n) ==
    /\ status = "live"
    /\ nCalls < MaxCalls
    /\ nCalls' = nCalls + 1
    /\ lastCall' = Entry("feed", valid, nonNull, n)
    /\ UNCHANGED <<frameRate, channels>>
    /\ IF FeedRefuses(valid, nonNull, n)
       THEN UNCHANGED <<sampleBuffer, bufferedFrames, hasData, workspace,
                        status, streamPos, totalFrames>>
       ELSE /\ streamPos' = streamPos + n * channels
            /\ totalFrames' = totalFrames + n
            /\ \E engine \in [1 .. DrainCount(bufferedFrames + n) -> BOOLEAN] :
                 LET samples == CallerSamples(streamPos, n, channels)
                     probe == FeedBody(sampleBuffer, bufferedFrames, hasData, workspace,
                                       frameRate, channels, samples, n, engine, NoUB)
                 IN  \E u \in (IF probe.ub THEN UBChoices ELSE {NoUB}) :
                       LET r == FeedBody(sampleBuffer, bufferedFrames, hasData, workspace,
                                         frameRate, channels, samples, n, engine, u)
                       IN  /\ Throws(r.ws) <= MaxThrows
                           /\ sampleBuffer' = r.buf
                           /\ bufferedFrames' = r.frames
                           /\ hasData' = r.hasData
                           /\ workspace' = r.ws
                           /\ status' = IF r.aborted THEN "aborted" ELSE "live"

\* argument triples (session != NULL, samples != NULL, sample_count) the
\* caller passes to kf_session_feed
FeedArgs ==
    {<<TRUE, TRUE, n>> : n \in FeedSizes}
    \cup {<<FALSE, TRUE, CHUNK_FRAMES>>, <<TRUE, FALSE, CHUNK_FRAMES>>, <<FALSE, FALSE, 0>>}

Feed == \E a \in FeedArgs : kf_session_feed(a[1], a[2], a[3])

\* ---------------------------------------------------- kf_session_get_key
\* variant: the early return taken on a NULL session only
GetKeyRefusesNullOnly(valid, hd) == ~valid

\* `if (!session || !session->hasData) return KF_SILENCE;`
GetKeyRefuses(valid, hd) == ~valid \/ ~hd

\* variant: a query that also flushes the buffered frames to the engine
kf_session_get_key_flushing(valid) ==
    /\ status = "live"
    /\ nCalls < MaxCalls
    /\ nCalls' = nCalls + 1
    /\ UNCHANGED <<frameRate, channels, hasData, status, streamPos, totalFrames>>
    /\ lastCall' = [Entry("get_key", valid, TRUE, 0) EXCEPT !.ret = KF_SILENCE]
    /\ IF ~valid
       THEN UNCHANGED <<sampleBuffer, bufferedFrames, workspace>>
       ELSE /\ sampleBuffer' = <<>>
            /\ bufferedFrames' = 0
            /\ workspace' = IF bufferedFrames > 0
                            THEN Append(workspace,
                                   ProgressiveCall(AudioData(frameRate, channels, sampleBuffer), TRUE))
                            ELSE workspace

\* kf_session_get_key(session); valid: session != NULL
kf_session_get_key(valid) ==
    /\ status = "live"
    /\ nCalls < MaxCalls
    /\ nCalls' = nCalls + 1
    /\ UNCHANGED <<frameRate, channels, sampleBuffer, bufferedFrames, hasData,
                   status, streamPos, totalFrames>>
    /\ IF GetKeyRefuses(valid, hasData)
       THEN /\ lastCall' = [Entry("get_key", valid, TRUE, 0) EXCEPT !.ret = KF_SILENCE]
            /\ UNCHANGED workspace
       ELSE \E o \in KeyOutcomes :
              /\ workspace' = Append(workspace, KeyCall(o.ok, o.key))
              /\ Throws(workspace') <= MaxThrows
              \* static_cast<kf_key_t>(key) keeps the enumerator's value;
              \* catch (...) returns KF_SILENCE
              /\ lastCall' = [Entry("get_key", valid, TRUE, 0)
                                EXCEPT !.ret = IF o.ok THEN o.key ELSE KF_SILENCE]

GetKey == \E valid \in BOOLEAN : kf_session_get_key(valid)

\* ---------------------------------------------------- kf_session_finalize
\* variant: only a full chunk is flushed
FlushCondFullChunk(frames) == frames >= CHUNK_FRAMES

\* `if (session->bufferedFrames > 0)`
FlushCond(frames) == frames > 0

\* The flush of kf_session_finalize (`if (bufferedFrames > 0) { ... }`):
\* the state after it, as for FeedLoop.  accOk: progressiveChromagram
\* returns; u resolves an out-of-bounds read.
FinalizeFlush(accOk, u) ==
    LET s == [buf |-> sampleBuffer, frames |-> bufferedFrames, hasData |-> hasData,
              ws |-> workspace, it |-> 0, ub |-> FALSE, aborted |-> FALSE]
    IN  IF ~FlushCond(bufferedFrames)
        THEN s
        ELSE LET chunkSamples == bufferedFrames * channels
                 oob == chunkSamples > Len(sampleBuffer)
             IN  IF oob /\ u.read = "abort"
                 THEN [s EXCEPT !.ub = TRUE, !.aborted = TRUE]
                 ELSE LET audio == AudioData(frameRate, channels,
                                             CopyBlock(sampleBuffer, chunkSamples, u.indet))
                      IN  [s EXCEPT !.ws = Append(@, ProgressiveCall(audio, accOk)),
                                    !.hasData = AfterSubmit(@, accOk),
                                    !.it = 1,
                                    !.ub = oob,
                                    \* sampleBuffer.clear(); bufferedFrames = 0
                                    !.buf = <<>>,
                                    !.frames = 0]

\* variant: the classification in a try block of its own, after the close
FinalizeResultOwnTry(closeOk, o) == IF o.ok THEN o.key ELSE KF_SILENCE

\* the value kf_session_finalize returns: the key when neither
\* finalChromagram nor keyOfChromagram threw, else `return KF_SILENCE`
FinalizeResult(closeOk, o) == IF closeOk /\ o.ok THEN o.key ELSE KF_SILENCE

\* variant: the classification asked before the analysis window is closed
FinalizeCallsKeyFirst(closeOk, o) ==
    IF o.ok THEN <<KeyCall(TRUE, o.key), FinalCall(closeOk)>> ELSE <<KeyCall(FALSE, o.key)>>

\* the engine calls of `try { finalChromagram; keyOfChromagram }`: the
\* second is not reached when the first throws
FinalizeCalls(closeOk, o) ==
    IF closeOk THEN <<FinalCall(TRUE), KeyCall(o.ok, o.key)>> ELSE <<FinalCall(FALSE)>>

\* resolutions of an out-of-bounds read alone
ReadChoices == {u \in UBChoices : u.erase = "abort"}

\* kf_session_finalize(session); valid: session != NULL
kf_session_finalize(valid) ==
    /\ status = "live"
    /\ nCalls < MaxCalls
    /\ nCalls' = nCalls + 1
    /\ UNCHANGED <<frameRate, channels, streamPos, totalFrames>>
    /\ IF ~valid
       THEN /\ lastCall' = [Entry("finalize", valid, TRUE, 0) EXCEPT !.ret = KF_SILENCE]
            /\ UNCHANGED <<sampleBuffer, bufferedFrames, hasData, workspace, status>>
       ELSE \E accOk \in (IF FlushCond(bufferedFrames) THEN BOOLEAN ELSE {TRUE}) :
            \E u \in (IF FinalizeFlush(accOk, NoUB).ub THEN ReadChoices ELSE {NoUB}) :
              LET f == FinalizeFlush(accOk, u)
              IN  /\ sampleBuffer' = f.buf
                  /\ bufferedFrames' = f.frames
                  /\ hasData' = f.hasData
                  /\ IF f.aborted
                     THEN /\ status' = "aborted"
                          /\ workspace' = f.ws
                          /\ lastCall' = Entry("finalize", valid, TRUE, 0)
                     ELSE /\ status' = "live"
                          /\ \E closeOk \in BOOLEAN, o \in KeyOutcomes :
                               \* try { finalChromagram; keyOfChromagram }
                               \* catch (...) { return KF_SILENCE; }
                               /\ workspace' = f.ws \o FinalizeCalls(closeOk, o)
                               /\ Throws(workspace') <= MaxThrows
                               /\ lastCall' =
                                    [Entry("finalize", valid, TRUE, 0)
                                       EXCEPT !.ret = FinalizeResult(closeOk, o)]

Finalize == \E valid \in BOOLEAN : kf_session_finalize(valid)

\* ----------------------------------------------------- kf_session_destroy
\* kf_session_destroy(session): delete session.  The session, its buffer
\* and its workspace cease to exist; no call may follow.
kf_session_destroy ==
    /\ status = "live"
    /\ status' = "destroyed"
    /\ sampleBuffer' = <<>>
    /\ bufferedFrames' = 0
    /\ hasData' = FALSE
    /\ workspace' = <<>>
    /\ streamPos' = 0
    /\ totalFrames' = 0
    /\ nCalls' = 0
    /\ lastCall' = [op |-> "destroy", valid |-> TRUE, samples |-> TRUE, n |-> 0,
                    ret |-> KF_SILENCE, frames0 |-> 0, buffer0 |-> <<>>,
                    calls0 |-> 0, hasData0 |-> FALSE, finalized0 |-> FALSE]
    /\ UNCHANGED <<frameRate, channels>>

Next == Feed \/ GetKey \/ Finalize \/ kf_session_destroy

Spec == Init /\ [][Next]_vars

\* ------------------------------------- kf_session_feed, one pass at a time
\* The same kf_session_feed with its drain loop unrolled into steps, for
\* properties about the loop itself.  status = "feeding" while the call is
\* between its append and its return.

\* the call up to the loop: argument check, append, count
FeedEnter(valid, nonNull, n) ==
    /\ status = "live"
    /\ nCalls < MaxCalls
    /\ nCalls' = nCalls + 1
    /\ lastCall' = Entry("feed", valid, nonNull, n)
    /\ UNCHANGED <<frameRate, channels, hasData, workspace>>
    /\ IF FeedRefuses(valid, nonNull, n)
       THEN UNCHANGED <<sampleBuffer, bufferedFrames, status, streamPos, totalFrames>>
       ELSE /\ streamPos' = streamPos + n * channels
            /\ totalFrames' = totalFrames + n
            /\ sampleBuffer' = sampleBuffer \o
                   [i \in 1 .. n |-> CallerSamples(streamPos, n, channels)[i]]
            /\ bufferedFrames' = bufferedFrames + n
            /\ status' = "feeding"

FeedCall == \E a \in FeedArgs : FeedEnter(a[1], a[2], a[3])

\* one pass of `while (session->bufferedFrames >= CHUNK_FRAMES)`
DrainPass ==
    /\ status = "feeding"
    /\ LoopCond(bufferedFrames)
    /\ \E ok \in BOOLEAN, u \in UBChoices :
         LET r == DrainOnce([buf |-> sampleBuffer, frames |-> bufferedFrames,
                             hasData |-> hasData, ws |-> workspace, it |-> 0,
                             ub |-> FALSE, aborted |-> FALSE],
                            frameRate, channels, ok, u)
         IN  /\ Throws(r.ws) <= MaxThrows
             /\ sampleBuffer' = r.buf
             /\ bufferedFrames' = r.frames
             /\ hasData' = r.hasData
             /\ workspace' = r.ws
             /\ status' = IF r.aborted THEN "aborted" ELSE "feeding"
    /\ UNCHANGED <<frameRate, channels, streamPos, totalFrames, nCalls, lastCall>>

\* the loop test fails: the call returns
FeedReturn ==
    /\ status = "feeding"
    /\ ~LoopCond(bufferedFrames)
    /\ status' = "live"
    /\ UNCHANGED <<session, workspace, streamPos, totalFrames, nCalls, lastCall>>

NextLoop == FeedCall \/ DrainPass \/ FeedReturn

\* The call runs synchronously on the caller's thread, and the engine call of
\* a pass returns or throws: a pass that can be made is made, and a call
\* whose loop test fails returns.
SpecLoop == Init /\ [][NextLoop]_vars /\ WF_vars(DrainPass) /\ WF_vars(FeedReturn)

\* ------------------------------------------------------------ properties
\* the call that led to the current state returned to the caller
Returned(op) == lastCall.op = op /\ status = "live"

\* the last call was a feed that passed the argument check
FeedTaken == Returned("feed") /\ lastCall.valid /\ lastCall.samples /\ lastCall.n > 0

\* the engine calls made by the last API call
NewCalls == SubSeq(workspace, lastCall.calls0 + 1, Len(workspace))

IsSubmission(c) == c.op = "progressiveChromagram"

\* C1: in every reachable state of a live session, for any channel count,
\* bufferedFrames * channels equals the length of sampleBuffer.
C1_BufferLengthMatchesFrames ==
    status = "live" => bufferedFrames * channels = Len(sampleBuffer)

\* C2: immediately after any feed call returns, bufferedFrames is below
\* CHUNK_FRAMES.
C2_FeedDrainsFullChunks ==
    Returned("feed") => bufferedFrames < CHUNK_FRAMES

C2_Witness ==
    /\ FeedTaken
    /\ Len(NewCalls) > 0
    /\ bufferedFrames > 0
    /\ bufferedFrames < CHUNK_FRAMES

Blocks(ws) ==
    LET subs == SelectSeq(ws, IsSubmission)
    IN  [i \in 1 .. Len(subs) |-> subs[i].audio.samples]

\* the session after one feed call of everything the caller has handed over
\* so far, made on a fresh session with an engine that never throws
OneCall ==
    FeedBody(<<>>, 0, FALSE, <<>>, frameRate, channels,
             CallerSamples(0, totalFrames, channels), totalFrames,
             [k \in 1 .. DrainCount(totalFrames) |-> TRUE], NoUB)

\* C5: however the caller's stream was split into feed calls, the blocks
\* submitted so far and the buffered remainder are those of one feed call of
\* the whole stream (compared where that one call stays within the buffer);
\* a finalize that follows submits that remainder.
C5_SplitIndependent ==
    (status = "live" /\ totalFrames > 0 /\ ~OneCall.ub) =>
        /\ (~lastCall.finalized0 /\ ~Finalized) =>
              /\ Blocks(workspace) = Blocks(OneCall.ws)
              /\ sampleBuffer = OneCall.buf
        /\ (lastCall.op = "finalize" /\ lastCall.valid /\ ~lastCall.finalized0) =>
              Blocks(workspace) =
                  Blocks(OneCall.ws) \o (IF Len(OneCall.buf) > 0 THEN <<OneCall.buf>> ELSE <<>>)

\* C6: get_key returns KF_SILENCE and makes no engine call when the handle
\* is NULL or hasData is false, in particular on a fresh session.
C6_GetKeySilentWithoutData ==
    (lastCall.op = "get_key" /\ (~lastCall.valid \/ ~lastCall.hasData0)) =>
        /\ lastCall.ret = KF_SILENCE
        /\ Len(workspace) = lastCall.calls0

\* get_key on a session just created
C6_Witness ==
    /\ lastCall.op = "get_key"
    /\ lastCall.valid
    /\ nCalls = 1
    /\ lastCall.ret = KF_SILENCE
    /\ workspace = <<>>

\* a step that is a call of kf_session_get_key
GetKeyStep == nCalls' = nCalls + 1 /\ lastCall'.op = "get_key"

\* C7: get_key leaves sampleBuffer, bufferedFrames, hasData, frameRate and
\* channels unchanged and makes no accumulation or close call on the engine.
C7_GetKeyHasNoSideEffect ==
    [][GetKeyStep =>
          /\ UNCHANGED session
          /\ SubSeq(workspace', 1, Len(workspace)) = workspace
          /\ \A i \in (Len(workspace) + 1) .. Len(workspace') :
                workspace'[i].op = "keyOfChromagram"]_vars

\* get_key asked the engine in the middle of a chunk
C7_Witness ==
    /\ lastCall.op = "get_key"
    /\ lastCall.valid
    /\ lastCall.hasData0
    /\ bufferedFrames > 0
    /\ Len(sampleBuffer) > 0
    /\ Len(NewCalls) = 1

\* C8: a feed made after finalize does not append to sampleBuffer, does not
\* change bufferedFrames and makes no engine submission.
C8_NoFeedAfterFinalize ==
    (lastCall.op = "feed" /\ lastCall.finalized0) =>
        /\ sampleBuffer = lastCall.buffer0
        /\ bufferedFrames = lastCall.frames0
        /\ Len(workspace) = lastCall.calls0

\* C9: finalChromagram is applied to the session's workspace at most once.
C9_CloseAtMostOnce ==
    Cardinality({i \in 1 .. Len(workspace) : workspace[i].op = "finalChromagram"}) <= 1

\* C10: finalize submits the buffered samples as exactly one block when
\* bufferedFrames > 0 on entry (the block being the bufferedFrames * channels
\* buffered samples) and none otherwise; on return sampleBuffer is empty and
\* bufferedFrames is 0.
C10_FinalizeFlushesLeftover ==
    (Returned("finalize") /\ lastCall.valid) =>
        /\ sampleBuffer = <<>>
        /\ bufferedFrames = 0
        /\ Blocks(NewCalls) =
              IF lastCall.frames0 > 0 THEN <<lastCall.buffer0>> ELSE <<>>
        /\ lastCall.frames0 > 0 =>
              Len(lastCall.buffer0) = lastCall.frames0 * channels

\* C11: a submission that throws inside feed is swallowed: the feed still
\* makes every pass of the drain loop, each pass (the failed one included)
\* takes CHUNK_FRAMES * channels samples off the buffer and CHUNK_FRAMES off
\* bufferedFrames, and the failed submission does not set hasData.
C11_FailedChunkStillDrained ==
    (FeedTaken /\ \E i \in 1 .. Len(NewCalls) : ~NewCalls[i].ok) =>
        /\ Len(NewCalls) = (lastCall.frames0 + lastCall.n) \div CHUNK_FRAMES
        /\ \A i \in 1 .. Len(NewCalls) : IsSubmission(NewCalls[i])
        /\ bufferedFrames = lastCall.frames0 + lastCall.n - Len(NewCalls) * CHUNK_FRAMES
        /\ Len(sampleBuffer) =
              Len(lastCall.buffer0) + lastCall.n * channels
                  - Len(NewCalls) * CHUNK_FRAMES * channels
        /\ hasData = (lastCall.hasData0 \/ \E i \in 1 .. Len(NewCalls) : NewCalls[i].ok)

\* a step that is a call of kf_session_feed
FeedStep == nCalls' = nCalls + 1 /\ lastCall'.op = "feed"

\* C12: a feed with a NULL session, a NULL samples pointer or a zero
\* sample_count changes no field of the session and makes no engine call.
C12_RejectedFeedIsNoOp ==
    [][(FeedStep /\ (~lastCall'.valid \/ ~lastCall'.samples \/ lastCall'.n = 0)) =>
          /\ UNCHANGED session
          /\ UNCHANGED workspace
          /\ status' = "live"]_vars

\* a feed with a NULL samples pointer on a session that holds frames
C12_Witness ==
    /\ Returned("feed")
    /\ lastCall.valid
    /\ ~lastCall.samples
    /\ lastCall.n = CHUNK_FRAMES
    /\ bufferedFrames > 0
    /\ sampleBuffer = lastCall.buffer0

IsClose(c) == c.op = "finalChromagram"
IsKey(c) == c.op = "keyOfChromagram"

\* C14: get_key returns KF_SILENCE when keyOfChromagram throws; finalize
\* returns KF_SILENCE on a NULL session and when finalChromagram or
\* keyOfChromagram throws; a leftover submission that throws in finalize is
\* still followed by finalChromagram and, when that returns, keyOfChromagram.
C14_EngineFailuresBecomeSilence ==
    /\ (Returned("get_key") /\ \E i \in 1 .. Len(NewCalls) : ~NewCalls[i].ok) =>
          lastCall.ret = KF_SILENCE
    /\ (Returned("finalize") /\ ~lastCall.valid) =>
          lastCall.ret = KF_SILENCE /\ NewCalls = <<>>
    /\ (Returned("finalize") /\ lastCall.valid
          /\ \E i \in 1 .. Len(NewCalls) :
                (IsClose(NewCalls[i]) \/ IsKey(NewCalls[i])) /\ ~NewCalls[i].ok) =>
          lastCall.ret = KF_SILENCE
    /\ (Returned("finalize") /\ lastCall.valid
          /\ Len(NewCalls) > 0 /\ IsSubmission(NewCalls[1]) /\ ~NewCalls[1].ok) =>
          /\ Len(NewCalls) >= 2
          /\ IsClose(NewCalls[2])
          /\ NewCalls[2].ok => (Len(NewCalls) = 3 /\ IsKey(NewCalls[3]))

\* finalize whose leftover submission threw and which still returned a key
C14_Witness ==
    /\ Returned("finalize")
    /\ lastCall.valid
    /\ Len(NewCalls) = 3
    /\ IsSubmission(NewCalls[1])
    /\ ~NewCalls[1].ok
    /\ lastCall.ret = 0

\* some submission to the engine has returned without throwing
SomeSubmissionSucceeded ==
    \E i \in 1 .. Len(workspace) : IsSubmission(workspace[i]) /\ workspace[i].ok

\* C15: hasData is false after create, is true exactly when a submission
\* (a full chunk in feed or the leftover in finalize) has succeeded, and is
\* never set back to false while the session exists.
C15_HasDataIffSubmissionSucceeded ==
    /\ [](status # "destroyed" => (hasData <=> SomeSubmissionSucceeded))
    /\ [][(hasData /\ status' # "destroyed") => hasData']_vars

\* a session whose only submission threw: data submitted, hasData false
C15_Witness ==
    /\ status = "live"
    /\ ~hasData
    /\ Len(workspace) > 0
    /\ \A i \in 1 .. Len(workspace) : IsSubmission(workspace[i]) /\ ~workspace[i].ok

\* C16: every feed call terminates: each pass of the chunking loop lowers
\* bufferedFrames by exactly CHUNK_FRAMES, whether the submission returned
\* or threw, and the call returns without a further pass as soon as fewer
\* than CHUNK_FRAMES frames are buffered.  (A pass that ends the process in
\* an out-of-bounds access ends the call too; that cannot happen with one
\* channel.)
C16_FeedTerminates ==
    /\ (status = "feeding") ~> (status \in {"live", "aborted"})
    /\ (status = "feeding" /\ channels = 1) ~> (status = "live")
    /\ [][(status = "feeding" /\ status' = "feeding") =>
            /\ bufferedFrames >= CHUNK_FRAMES
            /\ bufferedFrames' = bufferedFrames - CHUNK_FRAMES
            /\ Len(workspace') = Len(workspace) + 1]_vars
    /\ [][(status = "feeding" /\ bufferedFrames < CHUNK_FRAMES) =>
            /\ status' = "live"
            /\ UNCHANGED <<session, workspace>>]_vars
    /\ [][(status = "feeding" /\ status' = "live") =>
            bufferedFrames < CHUNK_FRAMES]_vars

\* a feed of three chunks and a frame that returned after three passes, one
\* of which threw
C16_Witness ==
    /\ FeedTaken
    /\ lastCall.n = 3 * CHUNK_FRAMES + 1
    /\ Len(NewCalls) = 3
    /\ \E i \in 1 .. 3 : ~NewCalls[i].ok
    /\ bufferedFrames < CHUNK_FRAMES

\* C17: within one finalize call the engine steps come in the order
\* leftover submission (made exactly when frames were buffered), close of
\* the analysis window, classification; the classification is not asked
\* when the close throws, and the value returned is the one that
\* classification gave after the close.
C17_FinalizeOrder ==
    (Returned("finalize") /\ lastCall.valid) =>
        LET k == IF lastCall.frames0 > 0 THEN 1 ELSE 0
        IN  /\ Len(NewCalls) >= k + 1
            /\ \A i \in 1 .. k : IsSubmission(NewCalls[i])
            /\ IsClose(NewCalls[k + 1])
            /\ IF NewCalls[k + 1].ok
               THEN /\ Len(NewCalls) = k + 2
                    /\ IsKey(NewCalls[k + 2])
                    /\ lastCall.ret = IF NewCalls[k + 2].ok
                                      THEN NewCalls[k + 2].key
                                      ELSE KF_SILENCE
               ELSE /\ Len(NewCalls) = k + 1
                    /\ lastCall.ret = KF_SILENCE

\* finalize with leftover frames, all three engine steps made and returned,
\* the key of the classification handed back
C17_Witness ==
    /\ Returned("finalize")
    /\ lastCall.valid
    /\ lastCall.frames0 > 0
    /\ Len(NewCalls) = 3
    /\ \A i \in 1 .. 3 : NewCalls[i].ok
    /\ IsKey(NewCalls[3])
    /\ lastCall.ret = NewCalls[3].key
    /\ lastCall.ret # KF_SILENCE

\* C18: for any channel count and any sequence of feed and finalize calls,
\* every index read from sampleBuffer while a block is packaged and every
\* front range erased after a chunk lies within the buffer: the passes of a
\* feed take DrainCount * CHUNK_FRAMES * channels samples from the buffer as
\* it is after the append, and finalize reads bufferedFrames * channels
\* samples.
C18_NoOutOfBoundsAccess ==
    /\ (lastCall.op = "feed" /\ ~FeedRefuses(lastCall.valid, lastCall.samples, lastCall.n)) =>
           DrainCount(lastCall.frames0 + lastCall.n) * ChunkSamples(channels)
               <= Len(lastCall.buffer0) + lastCall.n
    /\ (lastCall.op = "finalize" /\ lastCall.valid /\ FlushCond(lastCall.frames0)) =>
           lastCall.frames0 * channels <= Len(lastCall.buffer0)
    /\ status # "aborted"
    /\ \A i \in 1 .. Len(workspace) :
           IsSubmission(workspace[i]) =>
               \A j \in 1 .. Len(workspace[i].audio.samples) :
                   workspace[i].audio.samples[j] \notin Indeterminate

====
